---- MODULE Spec2Model ----
(***************************************************************************)
(* Model of the YouTube downloader: the procedural entry point             *)
(* (yt-dowloader.py) and the class entry point (ytcmd.py, YTDownloader).   *)
(* Strings the code formats or parses are sequences of one-character       *)
(* strings, so that f"{height}p", int(...), format_size and strftime are   *)
(* computed the way the code computes them.  Python optionals are a        *)
(* sequence of length 0 (None) or 1 (a value).  Dictionary values of the   *)
(* progress sample are records [k, v] with k in "absent", "none", "int".   *)
(***************************************************************************)
EXTENDS Integers, Sequences, FiniteSets

VARIABLES
    entry,              \* which file runs: "script" or "class"
    state,              \* position of download_video (orchestrator state)
    preferred_quality,  \* parameter / local preferred_quality (optional string)
    ffmpeg_available,   \* local ffmpeg_available (optional boolean)
    info,               \* local info (optional metadata record)
    quality_set,        \* local quality_set
    quality_list,       \* local quality_list
    choice_raw,         \* last line returned by input() (optional string)
    target_height,      \* local height handed to get_best_format (optional)
    format,             \* ydl_opts['format'] (optional)
    download_calls,     \* number of ydl.download calls
    error,              \* exception caught by the handler / escaping (optional)
    result,             \* "running", "None" or "False": what download_video returned
    printed,            \* set of messages printed so far
    last_print,         \* the last message printed
    d,                  \* progress sample handed to progress_hook
    tz_offset,          \* UTC offset of the local time zone, seconds
    hook                \* outcome of progress_hook on d

orch_vars == <<entry, state, preferred_quality, ffmpeg_available, info,
               quality_set, quality_list, choice_raw, target_height,
               format, download_calls, error, result, printed, last_print>>
hook_vars == <<d, tz_offset, hook>>
vars == <<entry, state, preferred_quality, ffmpeg_available, info,
          quality_set, quality_list, choice_raw, target_height,
          format, download_calls, error, result, printed, last_print,
          d, tz_offset, hook>>

\* ---------------------------------------------------------------- bounds
MaxFormats == 2

\* ---------------------------------------------------------------- strings
DigitChars == <<"0", "1", "2", "3", "4", "5", "6", "7", "8", "9">>

IsDigit(c) == \E i \in 1..10 : DigitChars[i] = c

DigitVal(c) == (CHOOSE i \in 1..10 : DigitChars[i] = c) - 1

TenTo[i \in 0..9] == IF i = 0 THEN 1 ELSE 10 * TenTo[i - 1]

\* the number of decimal digits of n, for 0 <= n < 10^9
NumDigits(n) == CHOOSE k \in 1..9 : n < TenTo[k] /\ (k = 1 \/ n >= TenTo[k - 1])

\* str(n) / f"{n}" of a non-negative integer
IntToStr(n) ==
    [i \in 1..NumDigits(n) |-> DigitChars[((n \div TenTo[NumDigits(n) - i]) % 10) + 1]]

\* the value of a string of decimal digits
DigitsValue(s) ==
    LET value[i \in 0..Len(s)] ==
            IF i = 0 THEN 0 ELSE 10 * value[i - 1] + DigitVal(s[i])
    IN  value[Len(s)]

\* surrounding blanks are ignored by int()
Strip(s) ==
    LET solid == {i \in 1..Len(s) : s[i] # " "}
    IN  IF solid = {} THEN <<>>
        ELSE SubSeq(s, CHOOSE i \in solid : \A j \in solid : i <= j,
                       CHOOSE i \in solid : \A j \in solid : i >= j)

\* the element of a set of one element: {F(x) : x \in {e}} computes e once
TheOnly(S) == CHOOSE x \in S : TRUE

\* an optional sign and decimal digits; [ok |-> FALSE] stands for ValueError
ParseInt(t) ==
    LET signed == Len(t) > 0 /\ t[1] \in {"+", "-"}
        body == IF signed THEN Tail(t) ELSE t
    IN  IF Len(body) > 0 /\ \A i \in 1..Len(body) : IsDigit(body[i])
        THEN [ok |-> TRUE,
              val |-> IF signed /\ t[1] = "-" THEN 0 - DigitsValue(body)
                                              ELSE DigitsValue(body)]
        ELSE [ok |-> FALSE, val |-> 0]

\* int(s)
PyInt(s) == TheOnly({ParseInt(t) : t \in {Strip(s)}})

\* x.replace('p', '')
ReplaceP(x) == SelectSeq(x, LAMBDA c : c # "p")

\* f"{height}p"
Label(h) == IntToStr(h) \o <<"p">>

\* int(x.replace('p', '')), the sort key and the height of a label
HeightOf(x) == TheOnly({PyInt(text).val : text \in {ReplaceP(x)}})

\* ---------------------------------------------------------------- probe
ProbeOutcomes == {"exit0", "exit1", "FileNotFoundError", "PermissionError"}

\* check_ffmpeg: the value returned, or the exception that leaves it
check_ffmpeg(outcome) ==
    IF outcome \in {"exit0", "exit1"} THEN [raised |-> <<>>, value |-> TRUE]
    ELSE IF outcome = "FileNotFoundError" THEN [raised |-> <<>>, value |-> FALSE]
    ELSE [raised |-> <<outcome>>, value |-> FALSE]

\* ---------------------------------------------------------------- catalog
Heights == {720, 1080}
Codecs == {<<"none">>, <<"mp4a.40.2">>}

\* a format with or without a height, video only or with audio, and one that
\* has no acodec entry at all
Descriptors ==
    [height : {<<>>} \cup {<<h>> : h \in Heights}, acodec : Codecs]
        \cup {[height |-> <<720>>, acodec |-> <<>>]}

RECURSIVE SeqsUpTo(_, _)
SeqsUpTo(S, n) ==
    IF n = 0 THEN {<<>>}
    ELSE LET shorter == SeqsUpTo(S, n - 1)
         IN  shorter \cup {Append(s, x) : s \in {t \in shorter : Len(t) = n - 1}, x \in S}

FormatLists == SeqsUpTo(Descriptors, MaxFormats)

\* the test with "and" for "or"
Included_And(f, ffmpeg) ==
    /\ f.height # <<>>
    /\ f.height[1] # 0
    /\ (ffmpeg /\ f.acodec # <<"none">>)

\* the test of the collection loop: height and (ffmpeg_available or acodec != 'none')
Included(f, ffmpeg) ==
    /\ f.height # <<>>
    /\ f.height[1] # 0
    /\ (ffmpeg \/ f.acodec # <<"none">>)

\* quality_set after the loop over formats
BuildQualitySet(formats, ffmpeg) ==
    {Label(formats[i].height[1]) :
        i \in {j \in 1..Len(formats) : Included(formats[j], ffmpeg)}}

\* sorting the labels as text: only the first character decides here
SortKey_Text(x) == DigitVal(x[1])

\* key=lambda x: int(x.replace('p', ''))
SortKey(x) == HeightOf(x)

\* x comes before y in sorted(S, key=SortKey); labels of one set have distinct
\* heights, and equal keys (which the key of the code never gives) keep that order
Before(x, y) ==
    \/ SortKey(x) < SortKey(y)
    \/ SortKey(x) = SortKey(y) /\ HeightOf(x) < HeightOf(y)

\* sorted(S, key=SortKey)
Sorted(S) ==
    [i \in 1..Cardinality(S) |->
        CHOOSE x \in S : Cardinality({y \in S : Before(y, x)}) = i - 1]

\* ---------------------------------------------------------------- selector
get_best_format(formats, target, ffmpeg) ==
    IF ffmpeg
    THEN <<"bestvideo[height<=", IntToStr(target), "][ext=mp4]+bestaudio[ext=m4a]/best[height<=",
           IntToStr(target), "][ext=mp4]/best">>
    ELSE <<"best[height<=", IntToStr(target), "][ext=mp4]/best[ext=mp4]/best">>

\* ---------------------------------------------------------------- progress_hook
Absent == [k |-> "absent", v |-> 0]
PyNone == [k |-> "none", v |-> 0]
Num(n) == [k |-> "int", v |-> n]

\* d.get(key, default)
Get(field, default) == IF field.k = "absent" THEN default ELSE field

\* truth value of None or of a number
Truthy(x) == x.k = "int" /\ x.v # 0

\* a or b
PyOr(a, b) == IF Truthy(a) THEN a ELSE b

Pow10(k) == IF k = 1 THEN 10 ELSE 100

\* f"{num/den:.<k>f}" for k in 1..2, rounding half to even
Fixed(num, den, k) ==
    LET scaled == num * Pow10(k)
        q == scaled \div den
        r == scaled % den
        n == IF 2 * r > den \/ (2 * r = den /\ q % 2 = 1) THEN q + 1 ELSE q
        frac == n % Pow10(k)
    IN  IntToStr(n \div Pow10(k)) \o <<".">> \o
        (IF k = 2 /\ frac < 10 THEN <<"0">> ELSE <<>>) \o IntToStr(frac)

Units == <<<<"B">>, <<"K", "B">>, <<"M", "B">>, <<"G", "B">>>>

RECURSIVE ScaleLoop(_, _, _)
\* the for loop of format_size over units i..4, bytes being n/den
ScaleLoop(n, den, i) ==
    IF i > 4 THEN Fixed(n, den, 2) \o <<" ", "G", "B">>
    ELSE IF n \div den < 1024 THEN Fixed(n, den, 2) \o <<" ">> \o Units[i]
    ELSE ScaleLoop(n, den * 1024, i + 1)

format_size(bytes) == ScaleLoop(bytes, 1, 1)

NA == <<"N", "/", "A">>

Two(n) == (IF n < 10 THEN <<"0">> ELSE <<>>) \o IntToStr(n)

\* datetime.fromtimestamp(eta).strftime('%M:%S') in a zone tz seconds east of UTC
MinSec(eta, tz) ==
    LET local == eta + tz
    IN  Two((local \div 60) % 60) \o <<":">> \o Two(local % 60)

SpeedStr(speed) == IF Truthy(speed) THEN format_size(speed.v) \o <<"/", "s">> ELSE NA

EtaStr(eta, tz) == IF Truthy(eta) THEN MinSec(eta.v, tz) ELSE NA

Silent == [pc |-> "returned", written |-> FALSE, line |-> <<>>,
           percentage |-> <<>>, speed_str |-> <<>>, eta_str |-> <<>>]

\* total without the estimate
TotalOf_NoEstimate(s) == Get(s.total_bytes, Num(0))

\* total, as progress_hook computes it
TotalOf(s) == PyOr(Get(s.total_bytes, Num(0)), Get(s.total_bytes_estimate, Num(0)))

\* progress_hook(d): what it wrote to sys.stdout, if anything
progress_hook(s, tz) ==
    IF s.status # "downloading" THEN Silent
    ELSE LET downloaded == Get(s.downloaded_bytes, Num(0))
             total == TotalOf(s)
         IN  IF ~Truthy(total) THEN Silent
             ELSE IF downloaded.k # "int"
             THEN [Silent EXCEPT !.pc = "TypeError"]
             ELSE LET percentage == Fixed(downloaded.v * 100, total.v, 1)
                      speed_str == SpeedStr(Get(s.speed, Num(0)))
                      eta_str == EtaStr(Get(s.eta, PyNone), tz)
                  IN  [pc |-> "returned", written |-> TRUE,
                       line |-> <<"\r", "P", "r", "o", "g", "r", "e", "s", "s", ":", " ">> \o percentage \o
                                <<"%", " ", "|", " ", "S", "p", "e", "e", "d", ":", " ">> \o speed_str \o
                                <<" ", "|", " ", "E", "T", "A", ":", " ">> \o eta_str,
                       percentage |-> percentage,
                       speed_str |-> speed_str, eta_str |-> eta_str]

Statuses == {"downloading", "finished", "error"}
Optionals(S) == {Absent, PyNone} \cup {Num(n) : n \in S}
Samples == [status : Statuses,
            downloaded_bytes : {Absent, Num(50)},
            total_bytes : Optionals({0, 200}),
            total_bytes_estimate : {Absent, Num(0), Num(400)},
            speed : Optionals({0, 1536}),
            eta : Optionals({0, 75, 3725})]
TZOffsets == {0, 19800}

NoSample == [status |-> "none", downloaded_bytes |-> Absent, total_bytes |-> Absent,
             total_bytes_estimate |-> Absent, speed |-> Absent, eta |-> Absent]
Pending == [Silent EXCEPT !.pc = "pending"]

\* ---------------------------------------------------------------- inputs
None == <<>>

\* preferred_quality values a caller passes: None, "", "720p", "1080p", "480p"
Requests == {None, << <<>> >>, << <<"7", "2", "0", "p">> >>,
             << <<"1", "0", "8", "0", "p">> >>, << <<"4", "8", "0", "p">> >>}

\* lines typed at the prompt: "abc", "99", "2", "1", "0", "2.0", " 1"
InputLines == {<<"a", "b", "c">>, <<"9", "9">>, <<"2">>, <<"1">>, <<"0">>,
               <<"2", ".", "0">>, <<" ", "1">>}

Durations == {None, <<125>>}
Metadata == [formats : FormatLists, duration : Durations]
DirOutcomes == {"exists", "created", "OSError"}

\* what extract_info gives: None stands for an exception
Fetches == {None} \cup {<<x>> : x \in Metadata}

M_notice == "Notice: FFmpeg is not installed. Some high-quality options may be limited."
M_fetching == "Fetching video information..."
M_duration == "Duration"
M_available == "Available qualities:"
M_select == "Please select a quality from the available options:"
M_invalid == "Invalid choice. Please try again."
M_number == "Please enter a valid number."
M_downloading == "Downloading video in"
M_completed == "Download completed successfully!"
M_error == "An error occurred"
M_tips == "Troubleshooting tips:"

\* ---------------------------------------------------------------- download_video
Init ==
    /\ entry \in {"script", "class"}
    /\ state = "Idle"
    /\ preferred_quality \in Requests
    /\ (entry = "script" => preferred_quality # None)
    /\ ffmpeg_available = None
    /\ info = None
    /\ quality_set = {}
    /\ quality_list = <<>>
    /\ choice_raw = None
    /\ target_height = None
    /\ format = None
    /\ download_calls = 0
    /\ error = None
    /\ result = "running"
    /\ printed = {}
    /\ last_print = ""
    /\ d = NoSample
    /\ tz_offset = 0
    /\ hook = [Silent EXCEPT !.pc = "idle"]

\* classes derived from Exception; KeyboardInterrupt derives from BaseException only
ExceptionClasses == {"PermissionError", "OSError", "DownloadError", "TypeError",
                     "ValueError", "AttributeError", "IndexError", "EOFError"}

\* a handler for ValueError only
Caught_OnlyValueError(e) == e = "ValueError"

\* except Exception as e
Caught(e) == e \in ExceptionClasses

\* an exception e raised inside the try block, out having been printed before it
Handler(e, out) ==
    /\ error' = <<e>>
    /\ IF Caught(e)
       THEN /\ state' = "Failed"
            /\ printed' = printed \cup out \cup
                          (IF entry = "script" THEN {M_error, M_tips} ELSE {M_error})
            /\ last_print' = IF entry = "script" THEN M_tips ELSE M_error
            /\ result' = IF entry = "script" THEN "None" ELSE "False"
       ELSE /\ state' = "Crashed"
            /\ printed' = printed \cup out
            /\ last_print' = last_print
            /\ result' = "raised"

Invoke ==
    /\ state = "Idle"
    /\ state' = "ProbingTranscoder"
    /\ UNCHANGED <<entry, preferred_quality, ffmpeg_available, info, quality_set,
                   quality_list, choice_raw, target_height, format,
                   download_calls, error, result, printed, last_print>>
    /\ UNCHANGED hook_vars

\* ffmpeg_available = check_ffmpeg() and the notice
Probe(outcome) ==
    /\ state = "ProbingTranscoder"
    /\ LET r == check_ffmpeg(outcome)
       IN  IF r.raised # <<>>
           THEN /\ Handler(r.raised[1], {})
                /\ UNCHANGED ffmpeg_available
           ELSE /\ ffmpeg_available' = <<r.value>>
                /\ state' = "FetchingMetadata"
                /\ printed' = IF r.value THEN printed ELSE printed \cup {M_notice}
                /\ last_print' = IF r.value THEN last_print ELSE M_notice
                /\ UNCHANGED <<error, result>>
    /\ UNCHANGED <<entry, preferred_quality, info, quality_set, quality_list,
                   choice_raw, target_height, format, download_calls>>
    /\ UNCHANGED hook_vars

\* the output directory is there, made or refused; extract_info returns or raises
FetchOutcomes == DirOutcomes \X Fetches

\* output directory, ydl_opts, and info = ydl.extract_info(url, download=False)
FetchMetadata(dir, fetched) ==
    /\ state = "FetchingMetadata"
    /\ IF dir = "OSError"
       THEN /\ Handler("OSError", {})
            /\ UNCHANGED info
       ELSE IF fetched = None
       THEN /\ Handler("DownloadError", {M_fetching})
            /\ UNCHANGED info
       ELSE /\ info' = fetched
            /\ state' = "BuildingCatalog"
            /\ printed' = printed \cup {M_fetching}
            /\ last_print' = M_fetching
            /\ UNCHANGED <<error, result>>
    /\ UNCHANGED <<entry, preferred_quality, ffmpeg_available, quality_set,
                   quality_list, choice_raw, target_height, format,
                   download_calls>>
    /\ UNCHANGED hook_vars

\* title and duration display, quality_set, quality_list, the numbered list
BuildCatalog ==
    /\ state = "BuildingCatalog"
    /\ IF info[1].duration = None
       THEN /\ Handler("TypeError", {})
            /\ UNCHANGED <<quality_set, quality_list>>
       ELSE /\ \E qs \in {BuildQualitySet(info[1].formats, ffmpeg_available[1])} :
                 /\ quality_set' = qs
                 /\ quality_list' = Sorted(qs)
            /\ state' = "ResolvingQuality"
            /\ printed' = printed \cup {M_duration, M_available}
            /\ last_print' = M_available
            /\ UNCHANGED <<error, result>>
    /\ UNCHANGED <<entry, preferred_quality, ffmpeg_available, info, choice_raw,
                   target_height, format, download_calls>>
    /\ UNCHANGED hook_vars

\* the test with its second "not" dropped
NeedsPrompt_DroppedNot(pq, qset) ==
    IF pq = None THEN TRUE
    ELSE IF pq[1] = <<>> THEN TRUE
    ELSE pq[1] \in qset

\* the test without the membership half
NeedsPrompt_NoMembership(pq, qset) ==
    IF pq = None THEN TRUE
    ELSE pq[1] = <<>>

\* the test of the quality selection: not preferred_quality or preferred_quality not in quality_set
NeedsPrompt(pq, qset) ==
    IF pq = None THEN TRUE
    ELSE IF pq[1] = <<>> THEN TRUE
    ELSE pq[1] \notin qset

\* height = int(preferred_quality.replace('p', '')), ydl_opts['format'], the Downloading message
StartDownload(pq, out) ==
    IF pq = None
    THEN /\ Handler("AttributeError", out)
         /\ UNCHANGED <<target_height, format>>
    ELSE \E r \in {PyInt(text) : text \in {ReplaceP(pq[1])}} :
             IF ~r.ok
             THEN /\ Handler("ValueError", out)
                  /\ UNCHANGED <<target_height, format>>
             ELSE /\ target_height' = <<r.val>>
                  /\ format' = <<get_best_format(info[1].formats, r.val, ffmpeg_available[1])>>
                  /\ state' = "Downloading"
                  /\ printed' = printed \cup out \cup {M_downloading}
                  /\ last_print' = M_downloading
                  /\ UNCHANGED <<error, result>>

\* the requested quality is in the catalog: no prompt
UseRequested ==
    /\ state = "ResolvingQuality"
    /\ ~NeedsPrompt(preferred_quality, quality_set)
    /\ StartDownload(preferred_quality, {})
    /\ UNCHANGED <<entry, preferred_quality, ffmpeg_available, info, quality_set,
                   quality_list, choice_raw, download_calls>>
    /\ UNCHANGED hook_vars

\* the range test starting at 0
InRange_FromZero(choice, qlist) == 0 <= choice /\ choice <= Len(qlist)

\* 1 <= choice <= len(quality_list)
InRange(choice, qlist) == 1 <= choice /\ choice <= Len(qlist)

\* list[i] with Python's negative indices; None stands for IndexError
PyIndex(list, i) ==
    IF 0 <= i /\ i < Len(list) THEN <<list[i + 1]>>
    ELSE IF 0 - Len(list) <= i /\ i < 0 THEN <<list[Len(list) + i + 1]>>
    ELSE None

\* one pass of the while True loop, input() returning line
Prompt(line) ==
    /\ state = "ResolvingQuality"
    /\ NeedsPrompt(preferred_quality, quality_set)
    /\ choice_raw' = <<line>>
    /\ \E r \in {PyInt(line)} :
           IF r.ok /\ InRange(r.val, quality_list)
           THEN \E chosen \in {PyIndex(quality_list, r.val - 1)} :
                IF chosen = None
                THEN /\ Handler("IndexError", {M_select})
                     /\ UNCHANGED <<preferred_quality, target_height, format>>
                ELSE /\ preferred_quality' = chosen
                     /\ StartDownload(chosen, {M_select})
           ELSE /\ printed' = printed \cup {M_select, IF r.ok THEN M_invalid ELSE M_number}
                /\ last_print' = IF r.ok THEN M_invalid ELSE M_number
                /\ UNCHANGED <<state, preferred_quality, target_height, format, error, result>>
    /\ UNCHANGED <<entry, ffmpeg_available, info, quality_set, quality_list, download_calls>>
    /\ UNCHANGED hook_vars

\* input() raising: EOFError (standard input closed) or KeyboardInterrupt
PromptAbort(e) ==
    /\ state = "ResolvingQuality"
    /\ NeedsPrompt(preferred_quality, quality_set)
    /\ Handler(e, {M_select})
    /\ UNCHANGED <<entry, preferred_quality, ffmpeg_available, info, quality_set,
                   quality_list, choice_raw, target_height, format, download_calls>>
    /\ UNCHANGED hook_vars

\* ydl.download([url]) and the completion message
Download(ok) ==
    /\ state = "Downloading"
    /\ download_calls' = download_calls + 1
    /\ IF ok
       THEN /\ state' = "Completed"
            /\ result' = "None"
            /\ printed' = printed \cup {M_completed}
            /\ last_print' = M_completed
            /\ UNCHANGED error
       ELSE Handler("DownloadError", {})
    /\ UNCHANGED <<entry, preferred_quality, ffmpeg_available, info, quality_set,
                   quality_list, choice_raw, target_height, format>>
    /\ UNCHANGED hook_vars

Next ==
    \/ Invoke
    \/ \E o \in ProbeOutcomes : Probe(o)
    \/ \E o \in FetchOutcomes : FetchMetadata(o[1], o[2])
    \/ BuildCatalog
    \/ UseRequested
    \/ \E line \in InputLines : Prompt(line)
    \/ \E e \in {"EOFError", "KeyboardInterrupt"} : PromptAbort(e)
    \/ \E ok \in BOOLEAN : Download(ok)

Spec == Init /\ [][Next]_vars

\* every call returns, and the user keeps answering and types every line again and again
FairSpec ==
    /\ Init
    /\ [][Next]_vars
    /\ WF_vars(Invoke)
    /\ WF_vars(\E o \in ProbeOutcomes : Probe(o))
    /\ WF_vars(\E o \in FetchOutcomes : FetchMetadata(o[1], o[2]))
    /\ WF_vars(BuildCatalog)
    /\ WF_vars(UseRequested)
    /\ \A line \in InputLines : SF_vars(Prompt(line))
    /\ WF_vars(\E ok \in BOOLEAN : Download(ok))

\* ---------------------------------------------------------------- progress reporting
\* a download in flight: "720p" requested, one 720p format with audio, ffmpeg present
InFlight ==
    LET formats == <<[height |-> <<720>>, acodec |-> <<"mp4a.40.2">>]>>
        qset == BuildQualitySet(formats, TRUE)
    IN  /\ entry = "script"
        /\ state = "Downloading"
        /\ preferred_quality = <<Label(720)>>
        /\ ffmpeg_available = <<TRUE>>
        /\ info = <<[formats |-> formats, duration |-> <<125>>]>>
        /\ quality_set = qset
        /\ quality_list = Sorted(qset)
        /\ choice_raw = None
        /\ target_height = <<HeightOf(Label(720))>>
        /\ format = <<get_best_format(formats, HeightOf(Label(720)), TRUE)>>
        /\ download_calls = 1
        /\ error = None
        /\ result = "running"
        /\ printed = {M_fetching, M_duration, M_available, M_downloading}
        /\ last_print = M_downloading

HookInit ==
    /\ InFlight
    /\ d \in Samples
    /\ tz_offset \in TZOffsets
    /\ hook = Pending

\* the downloader calls progress_hook(d)
CallHook ==
    /\ hook.pc = "pending"
    /\ hook' = progress_hook(d, tz_offset)
    /\ UNCHANGED <<d, tz_offset>>
    /\ UNCHANGED orch_vars

\* the downloader produces the next sample
NextSample ==
    /\ hook.pc \notin {"pending", "idle"}
    /\ d' \in Samples
    /\ hook' = Pending
    /\ UNCHANGED tz_offset
    /\ UNCHANGED orch_vars

HookNext == CallHook \/ NextSample

HookSpec == HookInit /\ [][HookNext]_vars

\* ---------------------------------------------------------------- properties
\* the text of the label of a height, written out
LabelText(h) ==
    IF h = 720 THEN <<"7", "2", "0", "p">>
    ELSE IF h = 1080 THEN <<"1", "0", "8", "0", "p">>
    ELSE IF h = 480 THEN <<"4", "8", "0", "p">>
    ELSE <<"?">>

KnownHeights == {480, 720, 1080}

\* the labels of the catalog shown to the user
Catalog == {quality_list[i] : i \in 1..Len(quality_list)}

\* the requested quality is a non-empty string that is a label of the catalog
RequestInCatalog ==
    /\ preferred_quality # None
    /\ preferred_quality[1] # <<>>
    /\ preferred_quality[1] \in Catalog

\* C1: a non-empty requested quality that is a label of the catalog takes
\* download_video from ResolvingQuality to Downloading without any call of
\* input(), and the height handed to get_best_format is the number of that label.
C1_RequestedQualityNoPrompt ==
    [][(state = "ResolvingQuality" /\ RequestInCatalog)
        => /\ state' = "Downloading"
           /\ choice_raw' = None
           /\ M_select \notin printed'
           /\ preferred_quality' = preferred_quality
           /\ \E h \in KnownHeights :
                /\ LabelText(h) = preferred_quality[1]
                /\ target_height' = <<h>>]_vars

C1_Witness ==
    /\ state = "Downloading"
    /\ choice_raw = None
    /\ M_select \notin printed
    /\ RequestInCatalog
    /\ target_height = <<1080>>
    /\ Len(quality_list) = 2

\* what the lines of InputLines mean as integers; "abc" and "2.0" are no integers
IntegerLines == {<< <<"9", "9">>, 99 >>, << <<"2">>, 2 >>, << <<"1">>, 1 >>,
                 << <<"0">>, 0 >>, << <<" ", "1">>, 1 >>}

\* C2: with a non-empty catalog of length n, a line that is not an integer of
\* 1..n is rejected with a message and the loop prompts again (the state stays
\* ResolvingQuality), and a line that is an integer k of 1..n ends the loop with
\* the k-th label of the ascending catalog as the quality.
C2_PromptLoop ==
    [][(/\ state = "ResolvingQuality"
        /\ Len(quality_list) > 0
        /\ ~RequestInCatalog
        /\ choice_raw' # None
        /\ error' \notin {<<"EOFError">>, <<"KeyboardInterrupt">>})
        => LET line == choice_raw'[1]
               n == Len(quality_list)
           IN  IF \E k \in 1..n : <<line, k>> \in IntegerLines
               THEN \E k \in 1..n :
                      /\ <<line, k>> \in IntegerLines
                      /\ state' = "Downloading"
                      /\ preferred_quality' = <<quality_list[k]>>
                      /\ target_height' \in {<<h>> : h \in {g \in KnownHeights : LabelText(g) = quality_list[k]}}
               ELSE /\ state' = "ResolvingQuality"
                    /\ error' = None
                    /\ last_print' \in {M_invalid, M_number}
                    /\ preferred_quality' = preferred_quality
                    /\ target_height' = None]_vars

\* "abc" and "99" were rejected, then "2" chose the second of two labels
C2_Witness ==
    /\ state = "Downloading"
    /\ {M_invalid, M_number} \subseteq printed
    /\ choice_raw = << <<"2">> >>
    /\ Len(quality_list) = 2
    /\ preferred_quality = <<quality_list[2]>>

CatalogBuilt == M_available \in printed

\* the descriptor has a height and, without ffmpeg, an audio track
Qualifies(f, h) ==
    /\ f.height = <<h>>
    /\ (ffmpeg_available = <<TRUE>> \/ f.acodec # <<"none">>)

\* C3: the catalog holds the label "<h>p" exactly when some descriptor has
\* height h and (ffmpeg is available or its audio codec is not 'none'); it
\* holds nothing else, and is empty when no descriptor qualifies.
C3_InclusionRule ==
    CatalogBuilt =>
        /\ \A h \in KnownHeights :
             (LabelText(h) \in Catalog) <=>
             (\E i \in 1..Len(info[1].formats) : Qualifies(info[1].formats[i], h))
        /\ Catalog \subseteq {LabelText(h) : h \in KnownHeights}
        /\ quality_set = Catalog

\* without ffmpeg, a video-only 1080p format is left out and 720p with audio is kept
C3_Witness ==
    /\ CatalogBuilt
    /\ ffmpeg_available = <<FALSE>>
    /\ quality_list = <<LabelText(720)>>
    /\ \E i \in 1..Len(info[1].formats) :
         info[1].formats[i] = [height |-> <<1080>>, acodec |-> <<"none">>]

\* C4: quality_list is strictly ascending by numeric height, hence without
\* duplicates, whatever the order and repetition of the descriptors.
C4_StrictlyAscending ==
    \A i, j \in 1..Len(quality_list) :
        i < j => \E a, b \in KnownHeights :
                    /\ LabelText(a) = quality_list[i]
                    /\ LabelText(b) = quality_list[j]
                    /\ a < b

\* the formats came highest first, and the catalog is lowest first
C4_Witness ==
    /\ CatalogBuilt
    /\ Len(info[1].formats) = 2
    /\ info[1].formats[1].height = <<1080>>
    /\ info[1].formats[2].height = <<720>>
    /\ quality_list = <<LabelText(720), LabelText(1080)>>

\* C5: check_ffmpeg never raises: whatever the launch of 'ffmpeg -version'
\* does, the step from ProbingTranscoder leads to FetchingMetadata with a
\* boolean in ffmpeg_available.
C5_ProbeNeverRaises ==
    [][state = "ProbingTranscoder"
        => /\ state' = "FetchingMetadata"
           /\ ffmpeg_available' \in {<<TRUE>>, <<FALSE>>}
           /\ error' = None]_vars

Returned == result \in {"None", "False"}

\* C6: an exception of extract_info takes download_video from
\* FetchingMetadata to Failed with no catalog, no prompt and no download; an
\* exception of download takes it from Downloading to Failed; both times the
\* error is printed and download_video returns.
C6_ExtractionErrorsCaught ==
    [][/\ (state = "FetchingMetadata" /\ error' = <<"DownloadError">>)
          => /\ state' = "Failed"
             /\ result' \in {"None", "False"}
             /\ M_error \in printed'
             /\ M_available \notin printed'
             /\ quality_list' = <<>>
             /\ choice_raw' = None
             /\ M_select \notin printed'
             /\ download_calls' = 0
       /\ (state = "Downloading" /\ error' # None)
          => /\ error' = <<"DownloadError">>
             /\ download_calls' = 1
             /\ state' = "Failed"
             /\ result' \in {"None", "False"}
             /\ M_error \in printed'
             /\ M_completed \notin printed']_vars

C6_Witness ==
    /\ state = "Failed"
    /\ error = <<"DownloadError">>
    /\ info = None
    /\ download_calls = 0
    /\ Returned
    /\ M_fetching \in printed

\* C9: the height handed to get_best_format is the number of a label of the
\* catalog built in this invocation, for a requested and for a prompted quality.
C9_TargetHeightInCatalog ==
    format # None =>
        /\ target_height # None
        /\ LabelText(target_height[1]) \in Catalog
        /\ CatalogBuilt
        /\ \E i \in 1..Len(info[1].formats) : Qualifies(info[1].formats[i], target_height[1])

\* a quality that is not offered was requested, and the prompt resolved it
C9_Witness ==
    /\ format # None
    /\ choice_raw # None
    /\ target_height = <<720>>
    /\ LabelText(1080) \in Catalog

\* C10: every invocation of download_video ends in Completed or Failed (or is
\* interrupted at the prompt), the empty catalog included.
C10_Terminates == <>(state \in {"Completed", "Failed", "Crashed"})

Known(x) == x.k = "int"
KnownNonZero(x) == x.k = "int" /\ x.v # 0

\* C7 as stated: progress_hook writes a line exactly when status is
\* "downloading" and total_bytes or total_bytes_estimate is known.
C7_Original ==
    hook.pc \notin {"pending", "idle"} =>
        /\ hook.pc = "returned"
        /\ hook.written <=>
             (d.status = "downloading" /\ (Known(d.total_bytes) \/ Known(d.total_bytes_estimate)))

\* C7: progress_hook writes a line exactly when status is "downloading" and
\* total_bytes or total_bytes_estimate is known and not zero; for every other
\* sample it writes nothing and raises nothing.
C7_WritesIffTotalNonZero ==
    hook.pc \notin {"pending", "idle"} =>
        /\ hook.pc = "returned"
        /\ hook.written <=>
             (d.status = "downloading" /\
              (KnownNonZero(d.total_bytes) \/ KnownNonZero(d.total_bytes_estimate)))
        /\ ~hook.written => hook.line = <<>>
        /\ hook.written => Len(hook.line) > 0

\* a total of 0 bytes and no estimate: silent
C7_Witness ==
    /\ hook.pc = "returned"
    /\ ~hook.written
    /\ d.status = "downloading"
    /\ d.total_bytes = Num(0)
    /\ d.total_bytes_estimate = Absent

\* C8: in a rendered line the speed is "N/A" exactly when the sample has no
\* speed and the ETA is "N/A" exactly when the sample has no eta; a speed or
\* an eta of 0 is rendered as a value.
C8_NAOnlyWhenUnknown ==
    (hook.pc = "returned" /\ hook.written) =>
        /\ (hook.speed_str = NA) <=> ~Known(d.speed)
        /\ (hook.eta_str = NA) <=> ~Known(d.eta)

====
